---- MODULE Spec2Model ----
(***************************************************************************)
(* Model of wg_interface.rs: the [Interface] section of a WireGuard        *)
(* configuration file.  The three constructors (new, from_raw_values,      *)
(* from_raw_key_values) and the serializer (to_string) are pure functions  *)
(* of strings; they are modelled as operators on TLA+ strings, character   *)
(* by character, and applied by the actions of a small state machine that  *)
(* records the last call, its result, the rendered text and the result of  *)
(* parsing that text back.                                                 *)
(***************************************************************************)
EXTENDS Integers, Sequences, FiniteSets, TLC

VARIABLES call, result, rendered, reparsed

vars == <<call, result, rendered, reparsed>>

(***************************************************************************)
(* Strings.                                                                *)
(***************************************************************************)
Char(s, i) == SubSeq(s, i, i)

Digits == {"0", "1", "2", "3", "4", "5", "6", "7", "8", "9"}

DigitVal(c) ==
    CASE c = "0" -> 0 [] c = "1" -> 1 [] c = "2" -> 2 [] c = "3" -> 3
      [] c = "4" -> 4 [] c = "5" -> 5 [] c = "6" -> 6 [] c = "7" -> 7
      [] c = "8" -> 8 [] c = "9" -> 9

DigitChar(d) ==
    CASE d = 0 -> "0" [] d = 1 -> "1" [] d = 2 -> "2" [] d = 3 -> "3"
      [] d = 4 -> "4" [] d = 5 -> "5" [] d = 6 -> "6" [] d = 7 -> "7"
      [] d = 8 -> "8" [] d = 9 -> "9"

AllDigits(s) == \A i \in 1..Len(s) : Char(s, i) \in Digits

\* Index of the first occurrence of the pattern p in s at or after position
\* from; 0 when there is none.
RECURSIVE FindFrom(_, _, _)
FindFrom(s, p, from) ==
    IF from + Len(p) - 1 > Len(s) THEN 0
    ELSE IF SubSeq(s, from, from + Len(p) - 1) = p THEN from
    ELSE FindFrom(s, p, from + 1)

Find(s, p) == FindFrom(s, p, 1)

Contains(s, p) == Find(s, p) # 0

\* The pieces of s between occurrences of the separator sep (str::split).
RECURSIVE Split(_, _)
Split(s, sep) ==
    LET i == Find(s, sep)
    IN  IF i = 0 THEN <<s>>
        ELSE <<SubSeq(s, 1, i - 1)>> \o Split(SubSeq(s, i + Len(sep), Len(s)), sep)

\* Decimal text of a natural number (Display for u8 / u16).
RECURSIVE ToDec(_)
ToDec(n) == IF n < 10 THEN DigitChar(n) ELSE ToDec(n \div 10) \o DigitChar(n % 10)

\* Value of a string of digits, unbounded.
RECURSIVE DecValue(_)
DecValue(s) ==
    IF Len(s) = 0 THEN 0
    ELSE 10 * DecValue(SubSeq(s, 1, Len(s) - 1)) + DigitVal(Char(s, Len(s)))

RECURSIVE Pow2(_)
Pow2(n) == IF n = 0 THEN 1 ELSE 2 * Pow2(n - 1)

(***************************************************************************)
(* Results and errors.                                                     *)
(***************************************************************************)
Ok(v) == [ok |-> TRUE, val |-> v]

Err(e) == [ok |-> FALSE, err |-> e]

ValidationFailed(msg) == [kind |-> "ValidationFailed", msg |-> msg]

\* The error taxonomy of the key codec.
KeyError(msg) == [kind |-> "KeyError", msg |-> msg]

(***************************************************************************)
(* Unsigned integer parsing (str::parse::<u16>, str::parse::<u8>):         *)
(* an optional leading "+", then at least one digit, accumulated with      *)
(* checked arithmetic; anything else is an error.                          *)
(***************************************************************************)
U16_MAX == 65535

U8_MAX == 255

RECURSIVE AccumulateChecked(_, _, _, _)
AccumulateChecked(s, i, acc, max) ==
    IF i > Len(s) THEN Ok(acc)
    ELSE IF Char(s, i) \notin Digits THEN Err("InvalidDigit")
    ELSE LET next == acc * 10 + DigitVal(Char(s, i))
         IN  IF next > max THEN Err("PosOverflow")
             ELSE AccumulateChecked(s, i + 1, next, max)

ParseUnsigned(s, max) ==
    IF Len(s) = 0 THEN Err("Empty")
    ELSE IF s = "+" \/ s = "-" THEN Err("InvalidDigit")
    ELSE IF Char(s, 1) = "+" THEN AccumulateChecked(s, 2, 0, max)
    ELSE AccumulateChecked(s, 1, 0, max)

(***************************************************************************)
(* The key codec (crate::WgPrivateKey): a key is the base64 text of 32     *)
(* bytes, kept as validated text.  Parsing reports either an invalid       *)
(* encoding or a wrong length; the canonical text of a key is the text it  *)
(* was parsed from.                                                        *)
(***************************************************************************)
Base64Chars ==
    {"A", "B", "C", "D", "E", "F", "G", "H", "I", "J", "K", "L", "M",
     "N", "O", "P", "Q", "R", "S", "T", "U", "V", "W", "X", "Y", "Z",
     "a", "b", "c", "d", "e", "f", "g", "h", "i", "j", "k", "l", "m",
     "n", "o", "p", "q", "r", "s", "t", "u", "v", "w", "x", "y", "z",
     "0", "1", "2", "3", "4", "5", "6", "7", "8", "9", "+", "/"}

\* Length of the base64 text of 32 bytes: 43 symbols and one "=" of padding.
KeyTextLen == 44

WgPrivateKeyFromStr(s) ==
    IF \E i \in 1..Len(s) :
          /\ Char(s, i) \notin Base64Chars
          /\ ~(i = Len(s) /\ Char(s, i) = "=")
    THEN Err(KeyError("invalid encoding"))
    ELSE IF Len(s) # KeyTextLen \/ Char(s, Len(s)) # "="
    THEN Err(KeyError("wrong length"))
    ELSE Ok([key |-> s])

WgPrivateKeyToString(k) == k.key

(***************************************************************************)
(* The network-address parser (ipnetwork::IpNetwork).                      *)
(***************************************************************************)
IPV4_BITS == 32

\* One octet of a dotted quad (std::net): one to three digits, no leading
\* zero on a number of several digits, at most 255.
Ipv4OctetFromStr(s) ==
    IF Len(s) = 0 \/ Len(s) > 3 \/ ~AllDigits(s) THEN Err("AddrParseError")
    ELSE IF Len(s) > 1 /\ Char(s, 1) = "0" THEN Err("AddrParseError")
    ELSE IF DecValue(s) > U8_MAX THEN Err("AddrParseError")
    ELSE Ok(DecValue(s))

Ipv4AddrFromStr(s) ==
    LET parts == Split(s, ".")
    IN  IF Len(parts) # 4 THEN Err("AddrParseError")
        ELSE IF \E i \in 1..4 : ~Ipv4OctetFromStr(parts[i]).ok
             THEN Err("AddrParseError")
        ELSE Ok([i \in 1..4 |-> Ipv4OctetFromStr(parts[i]).val])

Ipv4AddrToString(a) ==
    ToDec(a[1]) \o "." \o ToDec(a[2]) \o "." \o ToDec(a[3]) \o "." \o ToDec(a[4])

\* ipnetwork's cidr_parts: the text before the single "/" and, when there
\* is a "/", the text after it.
cidr_parts(cidr) ==
    LET sep == Find(cidr, "/")
    IN  IF sep = 0 THEN Ok([ip |-> cidr, has_prefix |-> FALSE, prefix |-> ""])
        ELSE IF Contains(SubSeq(cidr, sep + 1, Len(cidr)), "/")
             THEN Err("InvalidCidrFormat")
        ELSE Ok([ip |-> SubSeq(cidr, 1, sep - 1), has_prefix |-> TRUE,
                 prefix |-> SubSeq(cidr, sep + 1, Len(cidr))])

\* ipnetwork's parse_prefix: a u8 that is at most max.
parse_prefix(s, max) ==
    LET mask == ParseUnsigned(s, U8_MAX)
    IN  IF ~mask.ok THEN Err("InvalidPrefix")
        ELSE IF mask.val > max THEN Err("InvalidPrefix")
        ELSE mask

\* ipnetwork's ipv4_mask_to_prefix: the number of leading one bits of a
\* netmask whose remaining bits are all zero.
ipv4_mask_to_prefix(mask) ==
    LET ones(o) == {p \in 0..8 : o = 256 - Pow2(8 - p)}
        contiguous == /\ \A i \in 1..4 : ones(mask[i]) # {}
                      /\ \A i \in 1..3 : mask[i] # U8_MAX => mask[i + 1] = 0
        count(i) == CHOOSE p \in ones(mask[i]) : TRUE
    IN  IF ~contiguous THEN Err("InvalidPrefix")
        ELSE Ok(count(1) + count(2) + count(3) + count(4))

\* Ipv4Network::from_str.  A text with no "/" is a host address and gets the
\* full prefix length; the prefix may also be written as a netmask.
Ipv4NetworkFromStr(s) ==
    LET parts == cidr_parts(s)
    IN  IF ~parts.ok THEN parts
        ELSE LET addr == Ipv4AddrFromStr(parts.val.ip)
                 netmask == Ipv4AddrFromStr(parts.val.prefix)
                 prefix == IF ~parts.val.has_prefix THEN Ok(IPV4_BITS)
                           ELSE IF netmask.ok THEN ipv4_mask_to_prefix(netmask.val)
                           ELSE parse_prefix(parts.val.prefix, IPV4_BITS)
             IN  IF ~addr.ok THEN Err("InvalidAddr")
                 ELSE IF ~prefix.ok THEN prefix
                 ELSE Ok([ip |-> addr.val, prefix |-> prefix.val])

\* Ipv6Network::from_str.  Every IPv6 address text contains ":"; the address
\* texts of this model are drawn from an alphabet without it, and on those
\* the IPv6 parser fails.
Ipv6NetworkFromStr(s) == Err("InvalidAddr")

\* IpNetwork::from_str: the IPv4 parser, then the IPv6 parser.
IpNetworkFromStr(s) ==
    IF Ipv4NetworkFromStr(s).ok THEN Ipv4NetworkFromStr(s)
    ELSE IF Ipv6NetworkFromStr(s).ok THEN Ipv6NetworkFromStr(s)
    ELSE Err("InvalidAddr")

IpNetworkToString(n) == Ipv4AddrToString(n.ip) \o "/" \o ToDec(n.prefix)

(***************************************************************************)
(* The section type, its serializer and its constructors.                  *)
(***************************************************************************)
TAG == "[Interface]"

PRIVATE_KEY == "PrivateKey"

ADDRESS == "Address"

LISTEN_PORT == "ListenPort"

POST_UP == "PostUp"

POST_DOWN == "PostDown"

WgInterface(private_key, address, listen_port, post_up, post_down) ==
    [private_key |-> private_key, address |-> address,
     listen_port |-> listen_port, post_up |-> post_up, post_down |-> post_down]

to_string(self) ==
    TAG \o "\n"
    \o PRIVATE_KEY \o " = " \o WgPrivateKeyToString(self.private_key) \o "\n"
    \o ADDRESS \o " = " \o IpNetworkToString(self.address) \o "\n"
    \o LISTEN_PORT \o " = " \o ToDec(self.listen_port) \o "\n"
    \o POST_UP \o " = " \o self.post_up \o "\n"
    \o POST_DOWN \o " = " \o self.post_down \o "\n"

\* new without its check of the port.
new_NoZeroCheck(private_key, address, listen_port, post_up, post_down) ==
    Ok(WgInterface(private_key, address, listen_port, post_up, post_down))

new(private_key, address, listen_port, post_up, post_down) ==
    IF listen_port = 0 THEN Err(ValidationFailed("port can't be 0"))
    ELSE Ok(WgInterface(private_key, address, listen_port, post_up, post_down))

\* A port parser that wraps modulo 2^16 instead of failing on overflow.
ParseU16_Wrapping(s) ==
    LET wide == ParseUnsigned(s, 999999)
    IN  IF wide.ok THEN Ok(wide.val % (U16_MAX + 1)) ELSE wide

ParseU16(s) == ParseUnsigned(s, U16_MAX)

\* from_raw_values parsing the address before the key.
from_raw_values_AddressFirst(private_key, address, listen_port, post_up, post_down) ==
    LET key == WgPrivateKeyFromStr(private_key)
        net == IpNetworkFromStr(address)
        port == ParseUnsigned(listen_port, U16_MAX)
    IN  IF ~net.ok
        THEN Err(ValidationFailed("address must be address with mask (e.g. 10.0.0.1/8)"))
        ELSE IF ~key.ok THEN Err(key.err)
        ELSE IF ~port.ok THEN Err(ValidationFailed("invalid port raw value"))
        ELSE IF port.val = 0 THEN Err(ValidationFailed("port can't be 0"))
        ELSE Ok(WgInterface(key.val, net.val, port.val, post_up, post_down))

\* from_raw_values wrapping the key parser's error like the other two.
from_raw_values_WrapKeyError(private_key, address, listen_port, post_up, post_down) ==
    LET key == WgPrivateKeyFromStr(private_key)
        net == IpNetworkFromStr(address)
        port == ParseUnsigned(listen_port, U16_MAX)
    IN  IF ~key.ok THEN Err(ValidationFailed("invalid private key"))
        ELSE IF ~net.ok
             THEN Err(ValidationFailed("address must be address with mask (e.g. 10.0.0.1/8)"))
        ELSE IF ~port.ok THEN Err(ValidationFailed("invalid port raw value"))
        ELSE IF port.val = 0 THEN Err(ValidationFailed("port can't be 0"))
        ELSE Ok(WgInterface(key.val, net.val, port.val, post_up, post_down))

\* from_raw_values leaving the check of the port to a typed constructor it
\* does not call.
from_raw_values_NoZeroCheck(private_key, address, listen_port, post_up, post_down) ==
    LET key == WgPrivateKeyFromStr(private_key)
        net == IpNetworkFromStr(address)
        port == ParseUnsigned(listen_port, U16_MAX)
    IN  IF ~key.ok THEN Err(key.err)
        ELSE IF ~net.ok
             THEN Err(ValidationFailed("address must be address with mask (e.g. 10.0.0.1/8)"))
        ELSE IF ~port.ok THEN Err(ValidationFailed("invalid port raw value"))
        ELSE Ok(WgInterface(key.val, net.val, port.val, post_up, post_down))

from_raw_values(private_key, address, listen_port, post_up, post_down) ==
    LET key == WgPrivateKeyFromStr(private_key)
        net == IpNetworkFromStr(address)
        port == ParseU16(listen_port)
    IN  IF ~key.ok THEN Err(key.err)
        ELSE IF ~net.ok
             THEN Err(ValidationFailed("address must be address with mask (e.g. 10.0.0.1/8)"))
        ELSE IF ~port.ok THEN Err(ValidationFailed("invalid port raw value"))
        ELSE IF port.val = 0 THEN Err(ValidationFailed("port can't be 0"))
        ELSE Ok(WgInterface(key.val, net.val, port.val, post_up, post_down))

\* Locals that start with a default port instead of the empty string.
EmptyFields_DefaultPort ==
    [private_key |-> "", address |-> "", listen_port |-> "51820",
     post_up |-> "", post_down |-> ""]

\* The five local strings of from_raw_key_values before its loop.
EmptyFields ==
    [private_key |-> "", address |-> "", listen_port |-> "",
     post_up |-> "", post_down |-> ""]

\* A match that takes the private key's name in either case.
MatchField_AnyCase(fields, k, v) ==
    IF k = PRIVATE_KEY \/ k = "privatekey" THEN [fields EXCEPT !.private_key = v]
    ELSE IF k = ADDRESS THEN [fields EXCEPT !.address = v]
    ELSE IF k = LISTEN_PORT THEN [fields EXCEPT !.listen_port = v]
    ELSE IF k = POST_UP THEN [fields EXCEPT !.post_up = v]
    ELSE IF k = POST_DOWN THEN [fields EXCEPT !.post_down = v]
    ELSE fields

\* One iteration of the loop: the match on the entry's key.
MatchField(fields, k, v) ==
    IF k = PRIVATE_KEY THEN [fields EXCEPT !.private_key = v]
    ELSE IF k = ADDRESS THEN [fields EXCEPT !.address = v]
    ELSE IF k = LISTEN_PORT THEN [fields EXCEPT !.listen_port = v]
    ELSE IF k = POST_UP THEN [fields EXCEPT !.post_up = v]
    ELSE IF k = POST_DOWN THEN [fields EXCEPT !.post_down = v]
    ELSE fields

\* The loop over the map; entries is the map's content in the order the
\* iteration visits it, a sequence of <<key, value>> with distinct keys.
RECURSIVE CollectFields(_, _)
CollectFields(fields, entries) ==
    IF entries = <<>> THEN fields
    ELSE CollectFields(MatchField(fields, entries[1][1], entries[1][2]), Tail(entries))

from_raw_key_values(raw_key_values) ==
    LET f == CollectFields(EmptyFields, raw_key_values)
    IN  from_raw_values(f.private_key, f.address, f.listen_port, f.post_up, f.post_down)

(***************************************************************************)
(* The file splitter: the field lines of a rendered section, each split at *)
(* its first " = " into a key and a value, collected into a map (a later   *)
(* line with the same key replaces an earlier one; a line without " = "    *)
(* is not a field line).                                                   *)
(***************************************************************************)
KEY_VALUE_SEP == " = "

IsFieldLine(line) == Contains(line, KEY_VALUE_SEP)

KeyOfLine(line) == SubSeq(line, 1, Find(line, KEY_VALUE_SEP) - 1)

ValueOfLine(line) ==
    SubSeq(line, Find(line, KEY_VALUE_SEP) + Len(KEY_VALUE_SEP), Len(line))

\* The lines of a text: its pieces between line feeds, without the empty
\* piece after the last line feed.
LinesOf(text) ==
    LET pieces == Split(text, "\n")
    IN  IF pieces[Len(pieces)] = "" THEN SubSeq(pieces, 1, Len(pieces) - 1)
        ELSE pieces

RawKeyValuesOf(text) ==
    LET lines == LinesOf(text)
        fieldLines == {i \in 2..Len(lines) : IsFieldLine(lines[i])}
        keys == {KeyOfLine(lines[i]) : i \in fieldLines}
        last(k) == CHOOSE i \in fieldLines :
                      /\ KeyOfLine(lines[i]) = k
                      /\ \A j \in fieldLines : KeyOfLine(lines[j]) = k => j <= i
    IN  [k \in keys |-> ValueOfLine(lines[last(k)])]

\* The orders in which an iteration may visit the entries of a map: every
\* sequence of its <<key, value>> pairs without repetition.
RECURSIVE OrdersOf(_)
OrdersOf(pairs) ==
    IF pairs = {} THEN {<<>>}
    ELSE UNION {{<<e>> \o o : o \in OrdersOf(pairs \ {e})} : e \in pairs}

IterationOrders(map) == OrdersOf({<<k, map[k]>> : k \in DOMAIN map})

(***************************************************************************)
(* Inputs.                                                                 *)
(***************************************************************************)

\* Longest port text of the digit sweep.
MaxPortLen == 5

\* Most unrecognized keys in a raw map.
MaxExtra == 1

K1 == "YWJjZGVmZ2hpamtsbW5vcHFyc3R1dnd4eXoxMjM0NTY="

K2 == "AAECAwQFBgcICQoLDA0ODxAREhMUFRYXGBkaGxwdHh8="

KeyTexts == {K1, K2, "", "c2hvcnQ=", "not a key!"}

AddressTexts ==
    {"10.0.0.1/24", "10.0.0.1/8", "192.168.1.1/255.255.255.0", "10.0.0.1",
     "not-an-ip", "", "10.0.0.1/33", "10.0.0.256/24", "10.0.0.1/24/1",
     "010.0.0.1/24", "10.0.0.1/", "10.0.0.1/255.0.255.0"}

PortTexts == {"51820", "0", "", "x", "-1", "65535", "65536", "+80", "0080", "1"}

PortAlphabet == {"0", "6", "9"}

RECURSIVE StringsOfLen(_, _)
StringsOfLen(alphabet, n) ==
    IF n = 0 THEN {""}
    ELSE {c \o s : c \in alphabet, s \in StringsOfLen(alphabet, n - 1)}

PortSweep == UNION {StringsOfLen(PortAlphabet, n) : n \in 1..MaxPortLen}

Commands == {"", "iptables -A", "iptables -D", "echo a\necho b"}

\* Typed inputs: the values the key and network types can hold.
TypedKeys == {WgPrivateKeyFromStr(t).val : t \in {t \in KeyTexts : WgPrivateKeyFromStr(t).ok}}

TypedNetworks == {IpNetworkFromStr(t).val : t \in {t \in AddressTexts : IpNetworkFromStr(t).ok}}

TypedPorts == {0, 1, 51820, U16_MAX}

RawValueInputs ==
    (KeyTexts \X AddressTexts \X PortTexts
        \X {<<"iptables -A", "iptables -D">>, <<"", "echo a\necho b">>})
    \cup ({K1} \X {"10.0.0.1/24", "not-an-ip"} \X PortSweep \X {<<"", "">>})

\* Raw maps: some of the five recognized keys, with the values of a profile,
\* and at most MaxExtra unrecognized keys.
Fields == <<PRIVATE_KEY, ADDRESS, LISTEN_PORT, POST_UP, POST_DOWN>>

RawProfiles ==
    {<<K1, "10.0.0.1/24", "51820", "iptables -A", "iptables -D">>,
     <<K2, "10.0.0.1", "0", "", "echo a\necho b">>,
     <<"not a key!", "not-an-ip", "x", "", "">>}

UnknownEntries == {<<"MTU", "1420">>, <<"privatekey", K2>>}

RawMaps ==
    {[k \in {Fields[i] : i \in present} \cup {e[1] : e \in extra} |->
        IF \E i \in present : Fields[i] = k
        THEN profile[CHOOSE i \in present : Fields[i] = k]
        ELSE (CHOOSE e \in extra : e[1] = k)[2]] :
     profile \in RawProfiles,
     present \in SUBSET (1..5),
     extra \in {x \in SUBSET UnknownEntries : Cardinality(x) <= MaxExtra}}

(***************************************************************************)
(* The state machine: one constructor call, then the rendering of the      *)
(* section it returned, then the parsing of that text back.                *)
(***************************************************************************)
NoError == [kind |-> "None", msg |-> ""]

Init ==
    /\ call = [fn |-> "none"]
    /\ result = Err(NoError)
    /\ rendered = [done |-> FALSE, text |-> ""]
    /\ reparsed = [done |-> FALSE, result |-> Err(NoError)]

CallNew ==
    /\ call.fn = "none"
    /\ \E k \in TypedKeys, a \in TypedNetworks, p \in TypedPorts,
          up \in Commands, down \in Commands :
          /\ call' = [fn |-> "new", key |-> k, net |-> a, port |-> p,
                      post_up |-> up, post_down |-> down]
          /\ result' = new(k, a, p, up, down)
    /\ UNCHANGED <<rendered, reparsed>>

CallFromRawValues ==
    /\ call.fn = "none"
    /\ \E in \in RawValueInputs :
          /\ call' = [fn |-> "from_raw_values", private_key |-> in[1],
                      address |-> in[2], listen_port |-> in[3],
                      post_up |-> in[4][1], post_down |-> in[4][2]]
          /\ result' = from_raw_values(in[1], in[2], in[3], in[4][1], in[4][2])
    /\ UNCHANGED <<rendered, reparsed>>

\* The call records the map; the iteration visits it in any order.
CallFromRawKeyValues ==
    /\ call.fn = "none"
    /\ \E map \in RawMaps :
          \E entries \in IterationOrders(map) :
             /\ call' = [fn |-> "from_raw_key_values", raw_key_values |-> map]
             /\ result' = from_raw_key_values(entries)
    /\ UNCHANGED <<rendered, reparsed>>

Render ==
    /\ result.ok
    /\ ~rendered.done
    /\ rendered' = [done |-> TRUE, text |-> to_string(result.val)]
    /\ UNCHANGED <<call, result, reparsed>>

Reparse ==
    /\ rendered.done
    /\ ~reparsed.done
    /\ \E entries \in IterationOrders(RawKeyValuesOf(rendered.text)) :
          reparsed' = [done |-> TRUE, result |-> from_raw_key_values(entries)]
    /\ UNCHANGED <<call, result, rendered>>

Next ==
    \/ CallNew
    \/ CallFromRawValues
    \/ CallFromRawKeyValues
    \/ Render
    \/ Reparse

Spec == Init /\ [][Next]_vars

(***************************************************************************)
(* Vocabulary of the properties.                                           *)
(***************************************************************************)
IsNew == call.fn = "new"

IsRaw == call.fn = "from_raw_values"

IsMap == call.fn = "from_raw_key_values"

\* The value a raw map gives a recognized key: its entry, or the empty
\* string when it has none.
FieldOf(map, k) == IF k \in DOMAIN map THEN map[k] ELSE ""

\* The five raw texts of a call on one of the raw paths.
RawTexts ==
    IF IsRaw
    THEN [private_key |-> call.private_key, address |-> call.address,
          listen_port |-> call.listen_port, post_up |-> call.post_up,
          post_down |-> call.post_down]
    ELSE [private_key |-> FieldOf(call.raw_key_values, PRIVATE_KEY),
          address |-> FieldOf(call.raw_key_values, ADDRESS),
          listen_port |-> FieldOf(call.raw_key_values, LISTEN_PORT),
          post_up |-> FieldOf(call.raw_key_values, POST_UP),
          post_down |-> FieldOf(call.raw_key_values, POST_DOWN)]

KeyParses == WgPrivateKeyFromStr(RawTexts.private_key).ok

AddressParses == IpNetworkFromStr(RawTexts.address).ok

PortParses == ParseUnsigned(RawTexts.listen_port, U16_MAX).ok

ADDRESS_MESSAGE == "address must be address with mask (e.g. 10.0.0.1/8)"

PORT_MESSAGE == "invalid port raw value"

ZERO_MESSAGE == "port can't be 0"

\* The keys of every raw map of the model, in one fixed order, and the
\* entries of a map in that order.
KeyUniverse == Fields \o <<"MTU", "privatekey">>

EntriesInFixedOrder(map) ==
    LET InMap(k) == k \in DOMAIN map
        keys == SelectSeq(KeyUniverse, InMap)
    IN  [i \in 1..Len(keys) |-> <<keys[i], map[keys[i]]>>]

Recognized == {Fields[i] : i \in 1..5}

\* A port text that is a decimal integer in 0..65535: digits, with an
\* optional plus sign, whose value is at most 65535.
PortDigits(s) == IF Len(s) > 0 /\ Char(s, 1) = "+" THEN Tail(s) ELSE s

IsDecimalU16(s) ==
    /\ Len(PortDigits(s)) > 0
    /\ AllDigits(PortDigits(s))
    /\ DecValue(PortDigits(s)) <= U16_MAX

(***************************************************************************)
(* C1.  Round trip: the field lines of the rendering of a section that a   *)
(* constructor returned, collected into a map and given to                 *)
(* from_raw_key_values, give back a section equal to it.                   *)
(***************************************************************************)
C1_RoundTrip == reparsed.done => reparsed.result = Ok(result.val)

(***************************************************************************)
(* C2.  Zero-port rejection: new with port 0, and from_raw_values with a   *)
(* valid key, a valid address and the port text "0", return                *)
(* ValidationFailed("port can't be 0").                                    *)
(***************************************************************************)
C2_ZeroPortRejected ==
    /\ (IsNew /\ call.port = 0) => result = Err(ValidationFailed(ZERO_MESSAGE))
    /\ (IsRaw /\ KeyParses /\ AddressParses /\ call.listen_port = "0")
          => result = Err(ValidationFailed(ZERO_MESSAGE))

C2_Witness ==
    /\ IsRaw /\ KeyParses /\ AddressParses /\ call.listen_port = "0"
    /\ call.post_up = "iptables -A"
    /\ ~result.ok

(***************************************************************************)
(* C3.  Malformed address normalization: from_raw_values with a valid key  *)
(* and an address text that has no prefix length, or that the address      *)
(* parser rejects, returns ValidationFailed with the fixed address         *)
(* message.                                                                *)
(***************************************************************************)
C3_MalformedAddressNormalized ==
    (IsRaw /\ KeyParses /\ (~Contains(call.address, "/") \/ ~AddressParses))
        => result = Err(ValidationFailed(ADDRESS_MESSAGE))

(***************************************************************************)
(* C4.  Error order: on the raw paths the error is that of the first       *)
(* failing check in the order key, address, port, zero port, whatever the  *)
(* later fields hold and whatever order the map is visited in.             *)
(***************************************************************************)
C4_ErrorOrder ==
    (IsRaw \/ IsMap) =>
        /\ ~KeyParses => result = Err(WgPrivateKeyFromStr(RawTexts.private_key).err)
        /\ (KeyParses /\ ~AddressParses)
              => result = Err(ValidationFailed(ADDRESS_MESSAGE))
        /\ (KeyParses /\ AddressParses /\ ~PortParses)
              => result = Err(ValidationFailed(PORT_MESSAGE))
        /\ (KeyParses /\ AddressParses /\ PortParses
               /\ ParseUnsigned(RawTexts.listen_port, U16_MAX).val = 0)
              => result = Err(ValidationFailed(ZERO_MESSAGE))

C4_Witness ==
    /\ IsMap
    /\ Recognized \subseteq DOMAIN call.raw_key_values
    /\ ~KeyParses /\ ~AddressParses /\ ~PortParses
    /\ result = Err(KeyError("invalid encoding"))

(***************************************************************************)
(* C5.  Unknown-field tolerance: a raw map gives the result of the map     *)
(* without its unrecognized keys (names are compared exactly, so           *)
(* "privatekey" is unrecognized), and succeeds when its recognized fields  *)
(* are valid.                                                              *)
(***************************************************************************)
C5_UnknownFieldsIgnored ==
    IsMap =>
        LET map == call.raw_key_values
            known == [k \in DOMAIN map \cap Recognized |-> map[k]]
        IN  /\ result = from_raw_key_values(EntriesInFixedOrder(known))
            /\ (KeyParses /\ AddressParses /\ IsDecimalU16(RawTexts.listen_port)
                   /\ DecValue(PortDigits(RawTexts.listen_port)) # 0)
                  => result.ok

C5_Witness ==
    /\ IsMap
    /\ "privatekey" \in DOMAIN call.raw_key_values
    /\ PRIVATE_KEY \in DOMAIN call.raw_key_values
    /\ result.ok

(***************************************************************************)
(* C6.  Missing-field defaulting: a raw map without a recognized key gives *)
(* the result of the map with that key set to the empty string; without    *)
(* ListenPort, and with a valid key and address, that is                   *)
(* ValidationFailed("invalid port raw value").                             *)
(***************************************************************************)
C6_MissingFieldIsEmpty ==
    IsMap =>
        LET map == call.raw_key_values
            with(f) == [k \in DOMAIN map \cup {f} |-> IF k = f THEN "" ELSE map[k]]
        IN  /\ \A f \in Recognized \ DOMAIN map :
                  result = from_raw_key_values(EntriesInFixedOrder(with(f)))
            /\ (LISTEN_PORT \notin DOMAIN map /\ KeyParses /\ AddressParses)
                  => result = Err(ValidationFailed(PORT_MESSAGE))

C6_Witness ==
    /\ IsMap
    /\ LISTEN_PORT \notin DOMAIN call.raw_key_values
    /\ KeyParses /\ AddressParses
    /\ result = Err(ValidationFailed(PORT_MESSAGE))

(***************************************************************************)
(* C7.  Canonical rendering: the text is the header line, then one         *)
(* "Key = Value" line for each field in the order PrivateKey, Address,     *)
(* ListenPort, PostUp, PostDown, then nothing but the end of the last      *)
(* line; for the example of the format it is the six-line block.           *)
(***************************************************************************)
C7_CanonicalRendering ==
    rendered.done =>
        LET s == result.val
            pieces == Split(rendered.text, "\n")
        IN  /\ Len(pieces) = 7
            /\ pieces[1] = "[Interface]"
            /\ pieces[2] = "PrivateKey = " \o s.private_key.key
            /\ pieces[3] = "Address = " \o IpNetworkToString(s.address)
            /\ pieces[4] = "ListenPort = " \o ToDec(s.listen_port)
            /\ pieces[5] = "PostUp = " \o s.post_up
            /\ pieces[6] = "PostDown = " \o s.post_down
            /\ pieces[7] = ""
            /\ (/\ s.private_key.key = K1
                /\ s.address = [ip |-> <<10, 0, 0, 1>>, prefix |-> 24]
                /\ s.listen_port = 51820
                /\ s.post_up = "iptables -A"
                /\ s.post_down = "iptables -D")
                  => rendered.text =
                        "[Interface]\nPrivateKey = YWJjZGVmZ2hpamtsbW5vcHFyc3R1dnd4eXoxMjM0NTY=\nAddress = 10.0.0.1/24\nListenPort = 51820\nPostUp = iptables -A\nPostDown = iptables -D\n"

(***************************************************************************)
(* C8.  Key errors are not wrapped: when the key text does not parse, the  *)
(* raw paths return the key parser's own error, which is none of the       *)
(* ValidationFailed values of the address and the port; every other        *)
(* failure is ValidationFailed with one of the three fixed messages.       *)
(***************************************************************************)
C8_KeyErrorsNotWrapped ==
    (IsRaw \/ IsMap) =>
        LET fixed == {ValidationFailed(ADDRESS_MESSAGE), ValidationFailed(PORT_MESSAGE),
                      ValidationFailed(ZERO_MESSAGE)}
        IN  /\ ~KeyParses =>
                  /\ ~result.ok
                  /\ result.err = WgPrivateKeyFromStr(RawTexts.private_key).err
                  /\ result.err.kind # "ValidationFailed"
            /\ (KeyParses /\ ~result.ok) => result.err \in fixed
            /\ (KeyParses /\ ~AddressParses) => result.err = ValidationFailed(ADDRESS_MESSAGE)
            /\ (KeyParses /\ AddressParses /\ ~PortParses)
                  => result.err = ValidationFailed(PORT_MESSAGE)

C8_Witness ==
    /\ IsRaw
    /\ call.private_key = "c2hvcnQ="
    /\ ~AddressParses
    /\ result = Err(KeyError("wrong length"))

C10_RawAgreesWithNew ==
    (IsRaw /\ KeyParses /\ AddressParses /\ PortParses) =>
        result = new(WgPrivateKeyFromStr(call.private_key).val,
                     IpNetworkFromStr(call.address).val,
                     ParseUnsigned(call.listen_port, U16_MAX).val,
                     call.post_up, call.post_down)

C10_Witness ==
    /\ IsRaw /\ KeyParses /\ AddressParses
    /\ call.listen_port = "0080"
    /\ call.post_down = "echo a\necho b"
    /\ result.ok
    /\ result.val.listen_port = 80

====
